---- MODULE Spec2Model ----
(***************************************************************************)
(* xkcd_checker.py: one cron-invoked run fetches the latest comic record,  *)
(* looks its number up in xkcd_history.txt, optionally downloads the       *)
(* image, emails it, and appends the number to the history file.           *)
(*                                                                         *)
(* The history file is modelled as the sequence of its characters, so      *)
(* that str(), readlines() and strip() are computed as the code does.      *)
(***************************************************************************)
EXTENDS Integers, Sequences, FiniteSets, TLC

\* Comic numbers the API can answer with: FirstNum .. FirstNum+NumComics-1.
\* They straddle 9/10 so that one- and two-digit numbers both occur.
FirstNum == 9
NumComics == 3
Nums == FirstNum .. (FirstNum + NumComics - 1)

\* Invocations of the script.  Spec runs them one at a time (process 1, again
\* and again); SpecConc lets two invocations overlap.
Procs == {1, 2}

VARIABLES
    hist,           \* xkcd_history.txt: [exists, content (sequence of characters)]
    mode,           \* permission bits of the history file for the script's user
    settings,       \* xkcd_settings as imported by each invocation
    pc,             \* the function of main() each invocation is about to call
    exit,           \* process exit status: -1 none yet, 0, 1
    failedAt,       \* the function whose sys.exit(1) (or uncaught error) ended the run
    num,            \* xkcd_dict['num'] of the run, 0 before the fetch
    fetches,        \* GETs of xkcd_api_url made by the run
    downloads,      \* GETs of the comic image made by the run
    mailConn,       \* the run reached a mail transport (sendgrid client / SMTP server)
    send_error,     \* main()'s send_error: "unset", or the truth value of what
                    \* email_latest returned ("falsy": delivered, "truthy": an error)
    histBefore,     \* the history file as it was when the latest run started
    lastFailedNum   \* number of the latest fetching run iff it ended on a send error

vars == <<hist, mode, settings, pc, exit, failedAt, num, fetches, downloads,
          mailConn, send_error, histBefore, lastFailedNum>>

----------------------------------------------------------------------------
(* Pure helpers *)

Digit == <<"0", "1", "2", "3", "4", "5", "6", "7", "8", "9">>

\* str(n) for a non-negative integer
RECURSIVE Str(_)
Str(n) == IF n < 10 THEN <<Digit[n + 1]>>
          ELSE Str(n \div 10) \o <<Digit[(n % 10) + 1]>>

Whitespace == {" ", "\t", "\n", "\r"}

RECURSIVE LStrip(_)
LStrip(s) == IF s # <<>> /\ Head(s) \in Whitespace THEN LStrip(Tail(s)) ELSE s

RECURSIVE RStrip(_)
RStrip(s) == IF s # <<>> /\ s[Len(s)] \in Whitespace
             THEN RStrip(SubSeq(s, 1, Len(s) - 1)) ELSE s

\* line.strip()
StripNone(line) == line
Strip(line) == LStrip(RStrip(line))

\* f.readlines(): the lines of the text, each keeping its newline
RECURSIVE ReadLinesFrom(_, _)
ReadLinesFrom(text, cur) ==
    IF text = <<>> THEN (IF cur = <<>> THEN <<>> ELSE <<cur>>)
    ELSE IF Head(text) = "\n"
         THEN <<cur \o <<"\n">>>> \o ReadLinesFrom(Tail(text), <<>>)
         ELSE ReadLinesFrom(Tail(text), cur \o <<Head(text)>>)

ReadLines(text) == ReadLinesFrom(text, <<>>)

RECURSIVE Reversed(_)
Reversed(s) == IF s = <<>> THEN <<>> ELSE Reversed(Tail(s)) \o <<Head(s)>>

\* the for loop of is_downloaded over the given lines: TRUE at the first
\* stripped line equal to current_xkcd, FALSE when the loop runs out
RECURSIVE ScanLines(_, _)
ScanLines(lines, current_xkcd) ==
    IF lines = <<>> THEN FALSE
    ELSE IF Strip(Head(lines)) = current_xkcd THEN TRUE
         ELSE ScanLines(Tail(lines), current_xkcd)

\* what is_downloaded answers for a history file it could read
InHistory(text, n) == ScanLines(Reversed(ReadLines(text)), Str(n))

\* file.write(comic_number + '\n') in append mode
AppendLine(text, n) == text \o Str(n) \o <<"\n">>

----------------------------------------------------------------------------
(* State *)

SendMethods == {"sendgrid", "smtp", "other"}

AllSettings == [download : BOOLEAN, mail_attachment : BOOLEAN,
                send_method : SendMethods, sendgrid_api_key : BOOLEAN]

NoFile == [exists |-> FALSE, content |-> <<>>]
EmptyFile == [exists |-> TRUE, content |-> <<>>]
RW == {"r", "w"}

Init ==
    /\ hist \in {NoFile, EmptyFile}
    /\ mode = RW
    \* no invocation has imported xkcd_settings yet: a placeholder
    /\ settings \in [Procs -> {[download |-> TRUE, mail_attachment |-> FALSE,
                                send_method |-> "smtp", sendgrid_api_key |-> FALSE]}]
    /\ pc = [p \in Procs |-> "idle"]
    /\ exit = [p \in Procs |-> -1]
    /\ failedAt = [p \in Procs |-> "none"]
    /\ num = [p \in Procs |-> 0]
    /\ fetches = [p \in Procs |-> 0]
    /\ downloads = [p \in Procs |-> 0]
    /\ mailConn = [p \in Procs |-> FALSE]
    /\ send_error = [p \in Procs |-> "unset"]
    /\ histBefore = hist
    /\ lastFailedNum = 0

----------------------------------------------------------------------------
(* Control flow of main() *)

\* sys.exit(code), an uncaught exception (status 1), or main() returning (0)
End(p, code, where) ==
    /\ pc' = [pc EXCEPT ![p] = "idle"]
    /\ exit' = [exit EXCEPT ![p] = code]
    /\ failedAt' = [failedAt EXCEPT ![p] = where]
    /\ lastFailedNum' = IF num[p] = 0 THEN lastFailedNum
                        ELSE IF where = "main" THEN num[p] ELSE 0

Goto(p, next) ==
    /\ pc' = [pc EXCEPT ![p] = next]
    /\ UNCHANGED <<exit, failedAt, lastFailedNum>>

\* The interpreter starts the script: xkcd_settings is imported (`file` is what
\* xkcd_settings.py may hold at that moment) and main() is entered.
Start(p, file) ==
    /\ pc[p] = "idle"
    /\ \E s \in file : settings' = [settings EXCEPT ![p] = s]
    /\ pc' = [pc EXCEPT ![p] = "check_settings"]
    /\ exit' = [exit EXCEPT ![p] = -1]
    /\ failedAt' = [failedAt EXCEPT ![p] = "none"]
    /\ num' = [num EXCEPT ![p] = 0]
    /\ fetches' = [fetches EXCEPT ![p] = 0]
    /\ downloads' = [downloads EXCEPT ![p] = 0]
    /\ mailConn' = [mailConn EXCEPT ![p] = FALSE]
    /\ send_error' = [send_error EXCEPT ![p] = "unset"]
    /\ histBefore' = hist
    /\ UNCHANGED <<hist, mode, lastFailedNum>>

\* check_settings(): the two combinations it rejects
SettingsRejectedKeyOnly(s) ==
    s.send_method = "sendgrid" /\ ~s.sendgrid_api_key
SettingsRejectedAttachmentOnly(s) ==
    s.mail_attachment /\ ~s.download
SettingsRejected(s) ==
    \/ s.mail_attachment /\ ~s.download
    \/ s.send_method = "sendgrid" /\ ~s.sendgrid_api_key

CheckSettings(p) ==
    /\ pc[p] = "check_settings"
    /\ IF SettingsRejected(settings[p])
       THEN End(p, 1, "check_settings")
       ELSE Goto(p, "check_xkcd")
    /\ UNCHANGED <<hist, mode, settings, num, fetches, downloads, mailConn, send_error,
                   histBefore>>

\* check_xkcd(): one requests.get; a RequestException ends the run
CheckXkcdRetry(p) ==
    /\ pc[p] = "check_xkcd"
    /\ \E first \in BOOLEAN, second \in BOOLEAN, n \in Nums :
         IF first \/ second
         THEN /\ fetches' = [fetches EXCEPT ![p] = IF first THEN 1 ELSE 2]
              /\ num' = [num EXCEPT ![p] = n]
              /\ Goto(p, "is_downloaded")
         ELSE /\ fetches' = [fetches EXCEPT ![p] = 2]
              /\ num' = num
              /\ End(p, 1, "check_xkcd")
    /\ UNCHANGED <<hist, mode, settings, downloads, mailConn, send_error, histBefore>>
CheckXkcd(p) ==
    /\ pc[p] = "check_xkcd"
    /\ fetches' = [fetches EXCEPT ![p] = @ + 1]
    /\ \E ok \in BOOLEAN, n \in Nums :
         IF ok
         THEN /\ num' = [num EXCEPT ![p] = n]
              /\ Goto(p, "is_downloaded")
         ELSE /\ num' = num
              /\ End(p, 1, "check_xkcd")
    /\ UNCHANGED <<hist, mode, settings, downloads, mailConn, send_error, histBefore>>

\* is_downloaded(), and main() returning when it answers True.
\* open(history_file, 'rt') raises IOError when the file is missing or may not
\* be read; the handler then opens it with mode 'w', which creates a missing
\* file and truncates an existing one.
IsDownloaded(p) ==
    /\ pc[p] = "is_downloaded"
    /\ IF hist.exists /\ "r" \in mode
       THEN /\ UNCHANGED <<hist, mode>>
            /\ IF InHistory(hist.content, num[p])
               THEN End(p, 0, "none")
               ELSE Goto(p, "download_latest")
       ELSE IF hist.exists
            THEN IF "w" \in mode
                 THEN /\ hist' = EmptyFile
                      /\ mode' = mode
                      /\ Goto(p, "download_latest")
                 ELSE /\ UNCHANGED <<hist, mode>>
                      /\ End(p, 1, "is_downloaded")
            ELSE \E created \in BOOLEAN :
                   IF created
                   THEN /\ hist' = EmptyFile
                        /\ mode' = RW
                        /\ Goto(p, "download_latest")
                   ELSE /\ UNCHANGED <<hist, mode>>
                        /\ End(p, 1, "is_downloaded")
    /\ UNCHANGED <<settings, num, fetches, downloads, mailConn, send_error, histBefore>>

\* download_latest(): nothing when downloads are disabled; else makedirs, the
\* open(history_file, "at+") writability probe, then the image GET and save.
DownloadLatest(p) ==
    /\ pc[p] = "download_latest"
    /\ IF ~settings[p].download
       THEN /\ Goto(p, "email_latest")
            /\ UNCHANGED <<hist, mode, downloads>>
       ELSE \E dirOk \in BOOLEAN, created \in BOOLEAN,
               image \in {"ok", "save_error", "net_error"} :
              IF ~dirOk
              THEN /\ End(p, 1, "download_latest")
                   /\ UNCHANGED <<hist, mode, downloads>>
              ELSE IF (hist.exists /\ ~(RW \subseteq mode)) \/ (~hist.exists /\ ~created)
              THEN /\ End(p, 1, "download_latest")
                   /\ UNCHANGED <<hist, mode, downloads>>
              ELSE /\ hist' = IF hist.exists THEN hist ELSE EmptyFile
                   /\ mode' = IF hist.exists THEN mode ELSE RW
                   /\ downloads' = [downloads EXCEPT
                                      ![p] = IF image = "save_error" THEN @ ELSE @ + 1]
                   /\ IF image = "ok"
                      THEN Goto(p, "email_latest")
                      ELSE End(p, 1, "download_latest")
    /\ UNCHANGED <<settings, num, fetches, mailConn, send_error, histBefore>>

\* main(): `if send_error:` exits 1, else update_history is called
MainExitsNever(result) == FALSE
MainExits(result) == result = "truthy"

\* email_latest() and main()'s test of its result.  Outcomes of the transport:
\*   "import_error"  sendgrid module missing                      -> sys.exit(1)
\*   "auth_error"    smtplib.SMTPAuthenticationError at login     -> sys.exit(1)
\*   "crash"         any uncaught error of the transport          -> status 1
\*   "refused"       sendgrid answers without b'success' / sendmail returns a
\*                   non-empty dict: a true value is returned
\*   "success"       a false value is returned
Outcomes(method) ==
    IF method = "sendgrid" THEN {"import_error", "crash", "refused", "success"}
    ELSE IF method = "smtp" THEN {"auth_error", "crash", "refused", "success"}
    ELSE {}

\* truth value of what email_latest returns: False / {} on success, the
\* sendgrid result tuple / the dict of refused recipients otherwise
Returned(o) == IF o = "success" THEN "falsy" ELSE "truthy"

EmailLatest(p) ==
    /\ pc[p] = "email_latest"
    /\ IF settings[p].send_method \notin {"sendgrid", "smtp"}
       THEN /\ End(p, 1, "email_latest")
            /\ UNCHANGED <<mailConn, send_error>>
       ELSE \E o \in Outcomes(settings[p].send_method) :
              /\ mailConn' = [mailConn EXCEPT ![p] = (o # "import_error")]
              /\ IF o \in {"import_error", "auth_error", "crash"}
                 THEN /\ send_error' = send_error
                      /\ End(p, 1, "email_latest")
                 ELSE /\ send_error' = [send_error EXCEPT ![p] = Returned(o)]
                      /\ IF MainExits(Returned(o))
                         THEN End(p, 1, "main")
                         ELSE Goto(p, "update_history")
    /\ UNCHANGED <<hist, mode, settings, num, fetches, downloads, histBefore>>

\* update_history(): open(history_file, "at") and write the number and a
\* newline; IOError -> sys.exit(1).  Then main() returns.
UpdateHistoryNoWrite(p) ==
    /\ pc[p] = "update_history"
    /\ UNCHANGED <<hist, mode>>
    /\ End(p, 0, "none")
    /\ UNCHANGED <<settings, num, fetches, downloads, mailConn, send_error, histBefore>>
UpdateHistoryIfAbsent(p) ==
    /\ pc[p] = "update_history"
    /\ hist' = IF InHistory(hist.content, num[p]) THEN hist
               ELSE [exists |-> TRUE, content |-> AppendLine(hist.content, num[p])]
    /\ mode' = mode
    /\ End(p, 0, "none")
    /\ UNCHANGED <<settings, num, fetches, downloads, mailConn, send_error, histBefore>>
UpdateHistory(p) ==
    /\ pc[p] = "update_history"
    /\ \E created \in BOOLEAN, written \in BOOLEAN :
         IF (hist.exists /\ "w" \notin mode) \/ (~hist.exists /\ ~created)
         THEN /\ UNCHANGED <<hist, mode>>
              /\ End(p, 1, "update_history")
         ELSE IF ~written
         THEN /\ hist' = [hist EXCEPT !.exists = TRUE]
              /\ mode' = IF hist.exists THEN mode ELSE RW
              /\ End(p, 1, "update_history")
         ELSE /\ hist' = [exists |-> TRUE, content |-> AppendLine(hist.content, num[p])]
              /\ mode' = IF hist.exists THEN mode ELSE RW
              /\ End(p, 0, "none")
    /\ UNCHANGED <<settings, num, fetches, downloads, mailConn, send_error, histBefore>>

\* The operator (or anything else on the host) changes the permissions of the
\* history file.
Chmod ==
    /\ hist.exists
    /\ \E m \in SUBSET RW : m # mode /\ mode' = m
    /\ UNCHANGED <<hist, settings, pc, exit, failedAt, num, fetches, downloads,
                   mailConn, send_error, histBefore, lastFailedNum>>

Step(p) ==
    \/ CheckSettings(p)
    \/ CheckXkcd(p)
    \/ IsDownloaded(p)
    \/ DownloadLatest(p)
    \/ EmailLatest(p)
    \/ UpdateHistory(p)

\* Runs one after the other, as cron starts them
Next ==
    \/ Start(1, AllSettings)
    \/ Step(1)
    \/ Chmod

Spec == Init /\ [][Next]_vars

\* Two invocations of the script, each started once, that may overlap.  Both
\* import a settings file that check_settings accepts and that selects smtp.
ConcSettings == {s \in AllSettings : /\ s.send_method = "smtp"
                                     /\ ~s.mail_attachment
                                     /\ ~s.sendgrid_api_key}

NextConc ==
    \/ \E p \in Procs : exit[p] = -1 /\ Start(p, ConcSettings)
    \/ \E p \in Procs : Step(p)

SpecConc == Init /\ [][NextConc]_vars

----------------------------------------------------------------------------
(* Vocabulary of the properties *)

\* the history log's line for identifier n, as section 6 of the spec lays it
\* out: the decimal number, newline-terminated
LineOf(n) == Str(n) \o <<"\n">>

\* how many lines of the text are the line of n
Occurrences(text, n) ==
    Cardinality({i \in 1..Len(ReadLines(text)) : ReadLines(text)[i] = LineOf(n)})

Started(p) == pc[p] # "idle" \/ exit[p] # -1
Ended(p) == pc[p] = "idle" /\ exit[p] # -1
Notified(p) == send_error[p] = "falsy"
NoNetwork(p) == fetches[p] = 0 /\ downloads[p] = 0 /\ ~mailConn[p]

----------------------------------------------------------------------------
(* C1 *)

\* C1: when the fetched identifier was already a line of the history log as
\* the run started, the run downloads nothing, sends nothing, leaves the log
\* as it was and ends with status 0.  (Read leniently: a run that the history
\* check itself stops with sys.exit(1) is not held against the statement.)
C1_SeenIsNoOp ==
    (/\ num[1] # 0
     /\ pc[1] # "is_downloaded"
     /\ Occurrences(histBefore.content, num[1]) > 0)
    => /\ pc[1] = "idle"
       /\ downloads[1] = 0
       /\ ~mailConn[1]
       /\ ~Notified(1)
       /\ hist = histBefore
       /\ (exit[1] = 0 \/ failedAt[1] = "is_downloaded")

----------------------------------------------------------------------------
(* C2 *)

\* C2: when email_latest returns an error value the run ends at once with
\* status 1 and the identifier is on no line of the history log; and the check
\* of the next run that fetches the same identifier does not skip it as seen.
C2_FailedSendNotRecorded ==
    /\ [](send_error[1] = "truthy"
           => /\ pc[1] = "idle"
              /\ exit[1] = 1
              /\ Occurrences(hist.content, num[1]) = 0)
    /\ [][(pc[1] = "is_downloaded" /\ num[1] = lastFailedNum)
           => ~(pc'[1] = "idle" /\ exit'[1] = 0)]_vars

\* a run whose send was refused has ended, and the next run, fetching the
\* same identifier, is back at the notify step
C2_Witness ==
    /\ pc[1] = "email_latest"
    /\ num[1] = lastFailedNum

----------------------------------------------------------------------------
(* C3 *)

\* C3: after a run that fetched an identifier not in the log, sent the
\* notification and ended with status 0, the log is what it was before the
\* run followed by the one line of that identifier.
C3_NewIdAppendedOnce ==
    (/\ Ended(1)
     /\ exit[1] = 0
     /\ Notified(1)
     /\ Occurrences(histBefore.content, num[1]) = 0)
    => hist.content = histBefore.content \o LineOf(num[1])

----------------------------------------------------------------------------
(* C4 *)

\* C4: whatever runs came one after the other, and however they ended, no
\* identifier is on more than one line of the history log.
C4_AtMostOnce ==
    \A n \in Nums : Occurrences(hist.content, n) <= 1

\* a log of two or more lines, after a run that fetched a recorded identifier
\* again and a run that failed
C4_Witness ==
    /\ Len(ReadLines(hist.content)) >= 2
    /\ Ended(1)
    /\ exit[1] = 1
    /\ num[1] # 0
    /\ Occurrences(hist.content, num[1]) = 1

----------------------------------------------------------------------------
(* C5 *)

\* C5 as claimed: a run ends at the fetch only after a second attempt.
C5_RetriesOnce ==
    (Ended(1) /\ failedAt[1] = "check_xkcd") => fetches[1] = 2

\* C5 as amended: the API is fetched at most once per run; a failed fetch ends
\* the run with status 1 at once, with no record, and a record comes from the
\* first and only attempt.
C5_NoRetry ==
    /\ fetches[1] <= 1
    /\ (failedAt[1] = "check_xkcd"
          => fetches[1] = 1 /\ pc[1] = "idle" /\ exit[1] = 1 /\ num[1] = 0)
    /\ (num[1] # 0 => fetches[1] = 1)

C5_Witness ==
    Ended(1) /\ failedAt[1] = "check_xkcd" /\ fetches[1] = 1

----------------------------------------------------------------------------
(* C6, C7 *)

\* the configurations the claim calls missing or inconsistent
Inconsistent(s) ==
    \/ s.mail_attachment /\ ~s.download
    \/ s.send_method \notin {"sendgrid", "smtp"}
    \/ s.send_method = "sendgrid" /\ ~s.sendgrid_api_key

\* C6 as claimed: with any inconsistent configuration the run makes no network
\* call at all and ends with a non-zero status.
C6_BadSettingsNoNetwork ==
    (Started(1) /\ Inconsistent(settings[1]))
    => /\ NoNetwork(1)
       /\ (Ended(1) => exit[1] = 1)

\* C6 as amended: with an attachment requested without download, or sendgrid
\* selected without its API key, the run makes no network call and ends with
\* status 1 in check_settings.
C6_RejectedSettingsNoNetwork ==
    (/\ Started(1)
     /\ \/ settings[1].mail_attachment /\ ~settings[1].download
        \/ settings[1].send_method = "sendgrid" /\ ~settings[1].sendgrid_api_key)
    => /\ NoNetwork(1)
       /\ pc[1] \in {"check_settings", "idle"}
       /\ (Ended(1) => exit[1] = 1 /\ failedAt[1] = "check_settings")

C6_Witness ==
    /\ Ended(1)
    /\ failedAt[1] = "check_settings"
    /\ settings[1].send_method = "sendgrid"
    /\ ~settings[1].sendgrid_api_key
    /\ ~settings[1].mail_attachment

\* C7: with mail_attachment on and download off the run ends with status 1 in
\* check_settings, before the API fetch or any other network call, and the
\* history file is as it was when the run started.
C7_AttachmentNeedsDownload ==
    (Started(1) /\ settings[1].mail_attachment /\ ~settings[1].download)
    => /\ pc[1] \in {"check_settings", "idle"}
       /\ NoNetwork(1)
       /\ hist = histBefore
       /\ (Ended(1) => exit[1] = 1 /\ failedAt[1] = "check_settings")

C7_Witness ==
    /\ Ended(1)
    /\ exit[1] = 1
    /\ settings[1].mail_attachment
    /\ ~settings[1].download
    /\ settings[1].send_method = "smtp"
    /\ hist.content # <<>>

----------------------------------------------------------------------------
(* C8 *)

\* C8 as claimed: no run ends with the notification sent and the identifier
\* on no line of the history log.
C8_NoPartialSuccess ==
    (Ended(1) /\ Notified(1)) => Occurrences(hist.content, num[1]) > 0

\* C8 as amended: a run that fails in check_settings, the fetch, the history
\* check, the download or the notify step has sent no notification; a run
\* ends with the notification sent and the identifier unrecorded only when
\* update_history itself failed; and a run has put a new identifier on the
\* log only after sending its notification, ending with status 0.
C8_PartialOnlyByAppendFailure ==
    /\ (Ended(1) /\ failedAt[1] \in {"check_settings", "check_xkcd", "is_downloaded",
                                     "download_latest", "email_latest", "main"})
         => ~Notified(1)
    /\ (Ended(1) /\ Notified(1) /\ Occurrences(hist.content, num[1]) = 0)
         => (exit[1] = 1 /\ failedAt[1] = "update_history")
    /\ (/\ Ended(1)
        /\ num[1] # 0
        /\ Occurrences(histBefore.content, num[1]) = 0
        /\ Occurrences(hist.content, num[1]) > 0)
         => (Notified(1) /\ exit[1] = 0)

C8_Witness ==
    /\ Ended(1)
    /\ Notified(1)
    /\ Occurrences(hist.content, num[1]) = 0
    /\ failedAt[1] = "update_history"

----------------------------------------------------------------------------
(* C9 *)

\* C9: update_history takes no lock and does not look at the log again: a run
\* that ends it with status 0 has added its line to whatever the log held,
\* also when another run recorded the same identifier since this run's check.
C9_AppendIsUnconditional ==
    [][\A p \in Procs :
         (pc[p] = "update_history" /\ pc'[p] = "idle" /\ exit'[p] = 0)
         => hist'.content = hist.content \o LineOf(num[p])]_vars

\* both overlapping runs fetched the same new identifier, found it absent,
\* sent the notification and appended: it is on two lines of the log
C9_Witness ==
    /\ Ended(1) /\ Ended(2)
    /\ exit[1] = 0 /\ exit[2] = 0
    /\ num[1] = num[2]
    /\ Notified(1) /\ Notified(2)
    /\ Occurrences(histBefore.content, num[1]) = 0
    /\ Occurrences(hist.content, num[1]) = 2

----------------------------------------------------------------------------
(* C10 *)

\* C10: the history check leaves an existing log as it is, whether or not it
\* could be opened and read; only a missing log is created, empty.
C10_CheckKeepsLog ==
    [][(pc[1] = "is_downloaded" /\ pc'[1] # "is_downloaded")
        => IF hist.exists
           THEN hist' = hist
           ELSE hist' = hist \/ hist' = EmptyFile]_vars

====
